---- MODULE Spec2Model ----
(***************************************************************************)
(* A model of r2pipe.rs: the four transports behind R2Pipe (spawned        *)
(* process, inherited session, TCP, HTTP), the NUL framing of responses,   *)
(* session discovery through R2PIPE_IN / R2PIPE_OUT, and the worker pool   *)
(* of R2Pipe::threads with its channels and detached callbacks.            *)
(*                                                                         *)
(* Bytes are modelled by name: NUL is 0x00, NL is '\n', SP is ' ', BAD is  *)
(* a byte that occurs in no UTF-8 text (0xFF); every other byte is the     *)
(* one-character string of its ASCII character.  A text (String, &str) is  *)
(* the sequence of its bytes.                                              *)
(***************************************************************************)
EXTENDS Integers, Sequences, FiniteSets, Bags, TLC

NUL == "NUL"
NL == "NL"
SP == "SP"
BAD == "BAD"

Whitespace == {SP, NL}
Digits == {"0", "1", "2", "3", "4", "5", "6", "7", "8", "9"}

DigitVal(d) ==
    CASE d = "0" -> 0 [] d = "1" -> 1 [] d = "2" -> 2 [] d = "3" -> 3
      [] d = "4" -> 4 [] d = "5" -> 5 [] d = "6" -> 6 [] d = "7" -> 7
      [] d = "8" -> 8 [] d = "9" -> 9

Range(s) == {s[i] : i \in 1..Len(s)}

SeqsUpTo(S, n) == UNION {[1..k -> S] : k \in 0..n}

(***************************************************************************)
(* Bounds of the model.                                                    *)
(***************************************************************************)
\* longest value of an environment variable
MaxEnvLen == 2
\* longest command passed to cmd / cmdj on a single pipe
MaxCmdLen == 2
\* longest byte sequence the tool emits for one command on a single pipe
MaxRawLen == 2
\* number of R2PipeThread::send calls in one run of the pool
MaxSends == 2

(***************************************************************************)
(* str::trim, str::parse::<i32>, str::from_utf8                            *)
(***************************************************************************)
RECURSIVE trim_start(_)
trim_start(s) ==
    IF s # <<>> /\ Head(s) \in Whitespace THEN trim_start(Tail(s)) ELSE s

RECURSIVE trim_end(_)
trim_end(s) ==
    IF s # <<>> /\ s[Len(s)] \in Whitespace
    THEN trim_end(SubSeq(s, 1, Len(s) - 1))
    ELSE s

trim(s) == trim_end(trim_start(s))

RECURSIVE DecimalValue(_)
DecimalValue(s) ==
    IF s = <<>> THEN 0
    ELSE 10 * DecimalValue(SubSeq(s, 1, Len(s) - 1)) + DigitVal(s[Len(s)])

I32Max == 2147483647

\* k.parse::<i32>(): an optional sign, then at least one digit, nothing else,
\* and the value in the range of i32.
parse_i32(k) ==
    LET signed == k # <<>> /\ Head(k) \in {"+", "-"}
        body == IF signed THEN Tail(k) ELSE k
        mag == DecimalValue(body)
        val == IF signed /\ Head(k) = "-" THEN 0 - mag ELSE mag
    IN  IF body = <<>> \/ ~(Range(body) \subseteq Digits)
        THEN [ok |-> FALSE, val |-> 0]
        ELSE IF val > I32Max \/ val < (0 - I32Max) - 1
             THEN [ok |-> FALSE, val |-> 0]
             ELSE [ok |-> TRUE, val |-> val]

atoi(k) == IF parse_i32(k).ok THEN parse_i32(k).val ELSE -1

\* An environment variable is absent or holds a text.
Absent == [set |-> FALSE, val |-> <<>>]
Present(v) == [set |-> TRUE, val |-> v]

getenv(e) == IF e.set THEN atoi(e.val) ELSE -1

from_utf8_ok(bytes) == BAD \notin Range(bytes)

(***************************************************************************)
(* Results.  One shape for every Result<..> of the program: text carries   *)
(* a String, json a serde_json::Value.                                     *)
(***************************************************************************)
NoValue == [t |-> "none", n |-> <<>>, items |-> <<>>]
OkUnit == [ok |-> TRUE, err |-> "", text |-> <<>>, json |-> NoValue]
OkText(t) == [ok |-> TRUE, err |-> "", text |-> t, json |-> NoValue]
OkJson(v) == [ok |-> TRUE, err |-> "", text |-> <<>>, json |-> v]
Err(e) == [ok |-> FALSE, err |-> e, text |-> <<>>, json |-> NoValue]

(***************************************************************************)
(* serde_json::from_str and Value::to_string, for the JSON texts that the  *)
(* modelled bytes can spell: whitespace, unsigned integers without leading *)
(* zero, and arrays.  A Value is [t, n, items]: a number keeps its digits  *)
(* in n, an array its elements in items.                                   *)
(***************************************************************************)
JNum(d) == [t |-> "num", n |-> d, items |-> <<>>]
JArr(xs) == [t |-> "arr", n |-> <<>>, items |-> xs]
PFail == [ok |-> FALSE, val |-> NoValue, rest |-> <<>>]

RECURSIVE skip_ws(_)
skip_ws(s) == IF s # <<>> /\ Head(s) \in Whitespace THEN skip_ws(Tail(s)) ELSE s

RECURSIVE take_digits(_)
take_digits(s) ==
    IF s # <<>> /\ Head(s) \in Digits THEN <<Head(s)>> \o take_digits(Tail(s)) ELSE <<>>

RECURSIVE parse_value(_)
RECURSIVE parse_items(_, _)

\* one value at the head of s (s has no leading whitespace)
parse_value(s) ==
    IF s = <<>> THEN PFail
    ELSE IF Head(s) \in Digits
    THEN LET d == take_digits(s)
             rest == SubSeq(s, Len(d) + 1, Len(s))
         IN  IF Head(s) = "0"
             THEN [ok |-> TRUE, val |-> JNum(<<"0">>), rest |-> Tail(s)]
             ELSE [ok |-> TRUE, val |-> JNum(d), rest |-> rest]
    ELSE IF Head(s) = "["
    THEN LET r == skip_ws(Tail(s))
         IN  IF r # <<>> /\ Head(r) = "]"
             THEN [ok |-> TRUE, val |-> JArr(<<>>), rest |-> Tail(r)]
             ELSE parse_items(r, <<>>)
    ELSE PFail

\* the elements of an array after "[", up to and including "]"
parse_items(s, acc) ==
    LET v == parse_value(s)
        r == skip_ws(v.rest)
    IN  IF ~v.ok \/ r = <<>> THEN PFail
        ELSE IF Head(r) = "]"
        THEN [ok |-> TRUE, val |-> JArr(Append(acc, v.val)), rest |-> Tail(r)]
        ELSE IF Head(r) = ","
        THEN parse_items(skip_ws(Tail(r)), Append(acc, v.val))
        ELSE PFail

\* serde_json::from_str::<Value>: one value, whitespace around it, nothing else
from_str(s) ==
    LET v == parse_value(skip_ws(s))
    IN  IF v.ok /\ skip_ws(v.rest) = <<>> THEN OkJson(v.val) ELSE Err("ParseError")

RECURSIVE to_string(_)
RECURSIVE join_items(_)

\* Value::to_string: the compact serialisation
to_string(v) ==
    IF v.t = "num" THEN v.n ELSE <<"[">> \o join_items(v.items) \o <<"]">>

join_items(xs) ==
    IF xs = <<>> THEN <<>>
    ELSE IF Len(xs) = 1 THEN to_string(xs[1])
    ELSE to_string(xs[1]) \o <<",">> \o join_items(Tail(xs))

(***************************************************************************)
(* Framing.                                                                *)
(***************************************************************************)
\* faulty variant: a response of one byte counts as empty too
process_result_len1(res) ==
    IF Len(res) <= 1 THEN Err("EmptyResponse")
    ELSE IF from_utf8_ok(SubSeq(res, 1, Len(res) - 1))
         THEN OkText(SubSeq(res, 1, Len(res) - 1))
         ELSE Err("DecodeError")

process_result(res) ==
    IF Len(res) = 0 THEN Err("EmptyResponse")
    ELSE IF from_utf8_ok(SubSeq(res, 1, Len(res) - 1))
         THEN OkText(SubSeq(res, 1, Len(res) - 1))
         ELSE Err("DecodeError")

(***************************************************************************)
(* State.                                                                  *)
(*   env      R2PIPE_IN and R2PIPE_OUT of the process                      *)
(*   conns    the byte streams from the tool to this process, by           *)
(*            connection: SessionConn is the pair of inherited             *)
(*            descriptors, connection i >= 1 the i-th spawned child.       *)
(*            buf holds the bytes the tool has written and nobody has     *)
(*            read yet, eof says the tool closed its end.                   *)
(*   pipe     the R2Pipe of the single-pipe operations (NoPipe before      *)
(*            construction): its variant, the private buffer of its        *)
(*            BufReader, and its connection                                 *)
(*   dups     descriptors duplicated by libc::dup so far                    *)
(*   procs    child processes launched so far                               *)
(*   last     the last single-pipe call and what it returned               *)
(*   names, opts, callback   the arguments of R2Pipe::threads              *)
(*   threadsRes   "uncalled", then what R2Pipe::threads returned           *)
(*   workers      the worker threads, in request order: the id of the      *)
(*                handle, the position in the thread's closure (pc), the   *)
(*                command being executed, the reply to publish, the        *)
(*                thread's result once pc is "done", and its R2Pipe        *)
(*   txq, rxq     per worker, the command channel (tx -> hrx) and the      *)
(*                reply channel (htx -> rx)                                 *)
(*   handles      per worker, the caller's side of the R2PipeThread:       *)
(*                dropped, and blocked while the caller is in recv(true)   *)
(*   cbPending    the detached callback threads that have not run yet      *)
(*   cbLog        the callback invocations so far, as (id, reply)          *)
(*   sent, got    per worker, the commands send accepted and the replies   *)
(*                recv returned, in order                                   *)
(*   ntaken       per worker, the number of commands its loop dequeued     *)
(*   lastFail     the caller's latest call that failed on a closed         *)
(*                channel: the worker and "send", "recv" or "try_recv"     *)
(***************************************************************************)
VARIABLES env, conns, pipe, dups, procs, last,
          names, opts, callback, threadsRes, workers, txq, rxq, handles,
          cbPending, cbLog, sent, got, ntaken, lastFail, pub, iter

pipeVars == <<env, conns, pipe, dups, procs, last>>
poolVars == <<names, opts, callback, threadsRes, workers, txq, rxq, handles,
              cbPending, cbLog, sent, got, ntaken, lastFail, pub, iter>>
vars == <<pipeVars, poolVars>>

SessionConn == 0

NoPipe == [variant |-> "None", rbuf |-> <<>>, conn |-> SessionConn]
R2PipeLang(c) == [variant |-> "Lang", rbuf |-> <<>>, conn |-> c]
R2PipeSpawn(c) == [variant |-> "Pipe", rbuf |-> <<>>, conn |-> c]
R2PipeTcp == [variant |-> "Tcp", rbuf |-> <<>>, conn |-> SessionConn]
R2PipeHttp == [variant |-> "Http", rbuf |-> <<>>, conn |-> SessionConn]

FreshConn == [buf |-> <<>>, eof |-> FALSE]

(***************************************************************************)
(* Session discovery and construction.                                     *)
(***************************************************************************)
\* faulty variant: a session as soon as one of the two descriptors is given
in_session_either(e) ==
    LET f_in == getenv(e.r2in)
        f_out == getenv(e.r2out)
    IN  IF f_in < 0 /\ f_out < 0
        THEN [some |-> FALSE, f_in |-> -1, f_out |-> -1]
        ELSE [some |-> TRUE, f_in |-> f_in, f_out |-> f_out]

in_session(e) ==
    LET f_in == getenv(e.r2in)
        f_out == getenv(e.r2out)
    IN  IF f_in < 0 \/ f_out < 0
        THEN [some |-> FALSE, f_in |-> -1, f_out |-> -1]
        ELSE [some |-> TRUE, f_in |-> f_in, f_out |-> f_out]

\* R2Pipe::open: the result, the pipe built, the descriptors duplicated
open(e) ==
    IF ~in_session(e).some
    THEN [res |-> Err("NoSession"), pipe |-> NoPipe, dups |-> 0, procs |-> 0,
          hello |-> <<>>]
    ELSE [res |-> OkUnit, pipe |-> R2PipeLang(SessionConn), dups |-> 2, procs |-> 0,
          hello |-> <<>>]

\* faulty variant: the empty name alone decides that open is called
spawn_by_name(name, opt, e, child, launched, hello) ==
    IF name = <<>>
    THEN open(e)
    ELSE IF ~launched
    THEN [res |-> Err("Io"), pipe |-> NoPipe, dups |-> 0, procs |-> 0, hello |-> <<>>]
    ELSE IF hello = <<>>
    THEN [res |-> Err("Io"), pipe |-> NoPipe, dups |-> 0, procs |-> 1, hello |-> <<>>]
    ELSE [res |-> OkUnit, pipe |-> R2PipeSpawn(child), dups |-> 0, procs |-> 1,
          hello |-> Tail(hello)]

\* R2Pipe::spawn(name, opts).  child is the connection a launched process
\* gets; launched says whether Command::spawn succeeded; hello is what the
\* child wrote before it stopped or waited for its first command.
spawn(name, opt, e, child, launched, hello) ==
    IF name = <<>> /\ in_session(e).some
    THEN open(e)
    ELSE IF ~launched
    THEN [res |-> Err("Io"), pipe |-> NoPipe, dups |-> 0, procs |-> 0, hello |-> <<>>]
    ELSE IF hello = <<>>
    THEN [res |-> Err("Io"), pipe |-> NoPipe, dups |-> 0, procs |-> 1, hello |-> <<>>]
    ELSE [res |-> OkUnit, pipe |-> R2PipeSpawn(child), dups |-> 0, procs |-> 1,
          hello |-> Tail(hello)]

\* R2Pipe::tcp: TcpStream::connect decides
tcp(connected) ==
    IF connected THEN [res |-> OkUnit, pipe |-> R2PipeTcp]
    ELSE [res |-> Err("Io"), pipe |-> NoPipe]

\* R2Pipe::http never fails
http == [res |-> OkUnit, pipe |-> R2PipeHttp]

(***************************************************************************)
(* Reading one response: BufRead::read_until(0u8) on a BufReader whose     *)
(* private buffer is rbuf, over connection con.  The reader refills only   *)
(* when its buffer is empty, and a refill takes whatever the descriptor    *)
(* has: k is the number of bytes of con.buf the refills took in all.       *)
(***************************************************************************)
FirstNul(s) == CHOOSE i \in 1..Len(s) : s[i] = NUL /\ \A j \in 1..(i - 1) : s[j] # NUL

\* the k the read can end with; empty when the read blocks
ReadChoices(rbuf, con) ==
    IF NUL \in Range(rbuf) THEN {0}
    ELSE IF NUL \in Range(con.buf) THEN FirstNul(con.buf)..Len(con.buf)
    ELSE IF con.eof THEN {Len(con.buf)}
    ELSE {}

read_until(rbuf, con, k) ==
    LET avail == rbuf \o SubSeq(con.buf, 1, k)
        data == IF NUL \in Range(avail) THEN SubSeq(avail, 1, FirstNul(avail)) ELSE avail
    IN  [data |-> data,
         rbuf |-> SubSeq(avail, Len(data) + 1, Len(avail)),
         con |-> [con EXCEPT !.buf = SubSeq(con.buf, k + 1, Len(con.buf))]]

\* the tool writes out on the connection and, if dies, closes it
ToolWrites(con, out, dies) == [buf |-> con.buf \o out, eof |-> con.eof \/ dies]

\* The environment's part in one call: the bytes the tool answers with (out),
\* whether it then closes the stream (dies), how far the reader's refills
\* went (k), and whether a connection could be made (up: TCP and HTTP).
NoIO == [out |-> <<>>, dies |-> FALSE, k |-> 0, up |-> FALSE]

(***************************************************************************)
(* cmd of the four variants.  Each yields the result, the reader's buffer  *)
(* and the connection after the call, the bytes received for the response  *)
(* (raw) and whether the read ended at end of stream (atEof).              *)
(***************************************************************************)
\* inner is what cmd returned; res differs from it only after cmdj or close
Yield(res, rbuf, con, raw, atEof, wrote) ==
    [res |-> res, inner |-> res, rbuf |-> rbuf, con |-> con, raw |-> raw,
     atEof |-> atEof, wrote |-> wrote]

\* write_all of wrote, then read_until, then process_result
\* write_all fails once the tool has closed the connection
write_all_ok(con) == ~con.eof

\* read_until and process_result, the second half of cmd
receive(p, con, k, wrote) ==
    LET r == read_until(p.rbuf, con, k)
    IN  Yield(process_result(r.data), r.rbuf, r.con, r.data,
              NUL \notin Range(r.data), wrote)

exchange(p, con, wrote, io) ==
    IF ~write_all_ok(con)
    THEN Yield(Err("Io"), p.rbuf, con, <<>>, FALSE, wrote)
    ELSE receive(p, ToolWrites(con, io.out, io.dies), io.k, wrote)

R2PipeSpawn_cmd(p, con, cmd, io) == exchange(p, con, cmd \o <<NL>>, io)

R2PipeLang_cmd(p, con, cmd, io) == exchange(p, con, cmd, io)

R2PipeTcp_cmd(p, con, cmd, io) ==
    IF ~io.up
    THEN Yield(Err("Io"), p.rbuf, con, <<>>, FALSE, <<>>)
    ELSE Yield(process_result(io.out \o <<NUL>>), p.rbuf, con, io.out, TRUE, cmd)

R2PipeHttp_cmd(p, con, cmd, io) ==
    IF ~io.up
    THEN Yield(Err("Http"), p.rbuf, con, <<>>, FALSE, <<>>)
    ELSE Yield(IF from_utf8_ok(io.out) THEN OkText(io.out) ELSE Err("DecodeError"),
               p.rbuf, con, io.out, TRUE, cmd)

\* cmdj of the four variants, on what cmd yielded
R2PipeSpawn_cmdj(x) ==
    IF ~x.res.ok THEN x
    ELSE IF x.res.text = <<>> THEN [x EXCEPT !.res = Err("EmptyResponse")]
    ELSE [x EXCEPT !.res = from_str(x.res.text)]

\* faulty variant: the inherited session checks for an empty text as the spawned one does
R2PipeLang_cmdj_checked(x) == R2PipeSpawn_cmdj(x)

R2PipeLang_cmdj(x) == IF ~x.res.ok THEN x ELSE [x EXCEPT !.res = from_str(x.res.text)]

R2PipeHttp_cmdj(x) == IF ~x.res.ok THEN x ELSE [x EXCEPT !.res = from_str(x.res.text)]

R2PipeTcp_cmdj(x) == IF ~x.res.ok THEN x ELSE [x EXCEPT !.res = from_str(x.res.text)]

\* faulty variant: the command is passed on untrimmed
R2Pipe_cmd_untrimmed(p, con, cmd, io) ==
    CASE p.variant = "Pipe" -> R2PipeSpawn_cmd(p, con, cmd, io)
      [] p.variant = "Lang" -> R2PipeLang_cmd(p, con, cmd, io)
      [] p.variant = "Tcp" -> R2PipeTcp_cmd(p, con, cmd, io)
      [] p.variant = "Http" -> R2PipeHttp_cmd(p, con, cmd, io)

R2Pipe_cmd(p, con, cmd, io) ==
    CASE p.variant = "Pipe" -> R2PipeSpawn_cmd(p, con, trim(cmd), io)
      [] p.variant = "Lang" -> R2PipeLang_cmd(p, con, trim(cmd), io)
      [] p.variant = "Tcp" -> R2PipeTcp_cmd(p, con, trim(cmd), io)
      [] p.variant = "Http" -> R2PipeHttp_cmd(p, con, trim(cmd), io)

R2Pipe_cmdj(p, con, cmd, io) ==
    CASE p.variant = "Pipe" -> R2PipeSpawn_cmdj(R2PipeSpawn_cmd(p, con, trim(cmd), io))
      [] p.variant = "Lang" -> R2PipeLang_cmdj(R2PipeLang_cmd(p, con, trim(cmd), io))
      [] p.variant = "Tcp" -> R2PipeTcp_cmdj(R2PipeTcp_cmd(p, con, trim(cmd), io))
      [] p.variant = "Http" -> R2PipeHttp_cmdj(R2PipeHttp_cmd(p, con, trim(cmd), io))

Quit == <<"q", "!">>

R2PipeSpawn_close(p, con, io) == R2PipeSpawn_cmd(p, con, Quit, io)

\* faulty variant: close reports the failure of the quit exchange
R2Pipe_close_checked(p, con, io) ==
    IF p.variant = "Pipe"
    THEN R2PipeSpawn_close(p, con, io)
    ELSE Yield(OkUnit, p.rbuf, con, <<>>, FALSE, <<>>)

\* R2Pipe::close: only the spawned variant does anything
R2Pipe_close(p, con, io) ==
    IF p.variant = "Pipe"
    THEN [R2PipeSpawn_close(p, con, io) EXCEPT !.res = OkUnit]
    ELSE Yield(OkUnit, p.rbuf, con, <<>>, FALSE, <<>>)

(***************************************************************************)
(* The single-pipe operations as actions.  A process constructs one pipe   *)
(* (open, spawn, tcp or http) and then calls cmd, cmdj and close on it.    *)
(***************************************************************************)
EnvChars == {"-", "+", "0", "3", "x"}
EnvVals == {Absent} \cup {Present(v) : v \in SeqsUpTo(EnvChars, MaxEnvLen)}
Envs == [r2in : EnvVals, r2out : EnvVals]

NoSessionEnv == [r2in |-> Absent, r2out |-> Absent]
SessionEnv == [r2in |-> Present(<<"3">>), r2out |-> Present(<<"4">>)]

Names == {<<>>, <<"b">>}
OptVals == {"None", "Some"}
Hellos == {<<>>, <<NUL>>}

CmdBytes == {NUL, SP, "1"}
Cmds == SeqsUpTo(CmdBytes, MaxCmdLen)
RawBytes == {NUL, SP, "1", BAD}
Raws == SeqsUpTo(RawBytes, MaxRawLen)

\* the connection of the child a single-pipe spawn launches
MainChild == 1

\* a tool that echoes the command it was given, followed by one NUL byte
Echo(wrote) ==
    (IF wrote # <<>> /\ wrote[Len(wrote)] = NL
     THEN SubSeq(wrote, 1, Len(wrote) - 1)
     ELSE wrote) \o <<NUL>>

Frame(p, cmd) == IF p.variant = "Pipe" THEN cmd \o <<NL>> ELSE cmd

\* what the tool can write in one call: any bytes that keep the unread bytes
\* of the stream within MaxRawLen, or the echo when nothing is unread
ToolOuts(p, con, wrote) ==
    {o \in Raws : Len(p.rbuf) + Len(con.buf) + Len(o) <= MaxRawLen}
        \cup (IF p.rbuf = <<>> /\ con.buf = <<>> THEN {Echo(wrote)} ELSE {})

\* everything the environment can do in one call that returns
IOChoices(p, con, wrote) ==
    IF p.variant \in {"Pipe", "Lang"}
    THEN IF con.eof THEN {NoIO}
         ELSE UNION {{[out |-> o, dies |-> d, k |-> k, up |-> TRUE] :
                        k \in ReadChoices(p.rbuf, ToolWrites(con, o, d))} :
                     o \in ToolOuts(p, con, wrote), d \in BOOLEAN}
    ELSE {[out |-> o, dies |-> TRUE, k |-> 0, up |-> u] :
            o \in Raws \cup {Echo(wrote)}, u \in BOOLEAN}

\* last: the call in progress or just returned.  done is FALSE between the
\* call and its return.
NoCall ==
    [op |-> "none", arg |-> <<>>, done |-> TRUE, raw |-> <<>>, atEof |-> FALSE,
     echo |-> FALSE, variant |-> "None", inner |-> OkUnit, res |-> OkUnit]

Open ==
    /\ last.op = "none"
    /\ LET r == open(env)
       IN  /\ pipe' = r.pipe
           /\ dups' = dups + r.dups
           /\ procs' = procs + r.procs
           /\ last' = [NoCall EXCEPT !.op = "open", !.res = r.res,
                                     !.variant = r.pipe.variant]
    /\ UNCHANGED <<env, conns, poolVars>>

Spawn ==
    /\ last.op = "none"
    /\ \E name \in Names, o \in OptVals, launched \in BOOLEAN, hello \in Hellos :
         LET r == spawn(name, o, env, MainChild, launched, hello)
         IN  /\ pipe' = r.pipe
             /\ dups' = dups + r.dups
             /\ procs' = procs + r.procs
             /\ conns' = IF r.procs = 0 THEN conns
                         ELSE [conns EXCEPT ![MainChild] =
                                 [buf |-> r.hello, eof |-> ~r.res.ok]]
             /\ last' = [NoCall EXCEPT !.op = "spawn", !.arg = name, !.res = r.res,
                                       !.variant = r.pipe.variant]
    /\ UNCHANGED <<env, poolVars>>

Tcp ==
    /\ last.op = "none"
    /\ \E connected \in BOOLEAN :
         /\ pipe' = tcp(connected).pipe
         /\ last' = [NoCall EXCEPT !.op = "tcp", !.res = tcp(connected).res,
                                   !.variant = tcp(connected).pipe.variant]
    /\ UNCHANGED <<env, conns, dups, procs, poolVars>>

Http ==
    /\ last.op = "none"
    /\ pipe' = http.pipe
    /\ last' = [NoCall EXCEPT !.op = "http", !.res = http.res,
                              !.variant = http.pipe.variant]
    /\ UNCHANGED <<env, conns, dups, procs, poolVars>>

\* the caller enters cmd, cmdj or close with its argument
Call ==
    /\ pipe.variant # "None"
    /\ last.done
    /\ \E op \in {"cmd", "cmdj", "close"} :
         \E c \in (IF op = "close" THEN {<<>>} ELSE Cmds) :
           last' = [NoCall EXCEPT !.op = op, !.arg = c, !.done = FALSE,
                                  !.variant = pipe.variant]
    /\ UNCHANGED <<env, conns, pipe, dups, procs, poolVars>>

\* what a call leaves behind: x is what the variant's cmd / cmdj / close yielded
Returned(io, x) ==
    /\ pipe' = [pipe EXCEPT !.rbuf = x.rbuf]
    /\ conns' = [conns EXCEPT ![pipe.conn] = x.con]
    /\ last' = [last EXCEPT !.done = TRUE, !.raw = x.raw, !.atEof = x.atEof,
                            !.echo = /\ x.wrote # <<>>
                                     /\ io.out = Echo(x.wrote)
                                     /\ pipe.rbuf = <<>>
                                     /\ conns[pipe.conn].buf = <<>>,
                            !.inner = x.inner, !.res = x.res]
    /\ UNCHANGED <<env, dups, procs, poolVars>>

Cmd ==
    /\ ~last.done /\ last.op = "cmd"
    /\ \E io \in IOChoices(pipe, conns[pipe.conn], Frame(pipe, trim(last.arg))) :
         Returned(io, R2Pipe_cmd(pipe, conns[pipe.conn], last.arg, io))

Cmdj ==
    /\ ~last.done /\ last.op = "cmdj"
    /\ \E io \in IOChoices(pipe, conns[pipe.conn], Frame(pipe, trim(last.arg))) :
         Returned(io, R2Pipe_cmdj(pipe, conns[pipe.conn], last.arg, io))

Close ==
    /\ ~last.done /\ last.op = "close"
    /\ \E io \in IOChoices(pipe, conns[pipe.conn], Frame(pipe, Quit)) :
         Returned(io, R2Pipe_close(pipe, conns[pipe.conn], io))

NoFail == [w |-> 0, op |-> "none"]

\* The handle that iteration n (counted from 1) of the loop of R2Pipe::threads
\* pushes, looked at alone: nothing is looked at when n is 0.
NoIter == [n |-> 0, pushed |-> FALSE, id |-> 0]

\* no pool: R2Pipe::threads is not called
NoPool ==
    /\ names = <<>> /\ opts = <<>> /\ callback = FALSE
    /\ threadsRes = "uncalled"
    /\ workers = <<>> /\ txq = <<>> /\ rxq = <<>> /\ handles = <<>>
    /\ cbPending = EmptyBag /\ cbLog = EmptyBag
    /\ sent = <<>> /\ got = <<>> /\ ntaken = <<>>
    /\ lastFail = NoFail
    /\ pub = <<>>
    /\ iter = NoIter

InitPipeState ==
    /\ conns = [c \in {SessionConn, MainChild} |-> FreshConn]
    /\ pipe = NoPipe
    /\ dups = 0
    /\ procs = 0
    /\ last = NoCall
    /\ NoPool

\* session discovery, over every environment
InitSession == env \in Envs /\ InitPipeState
NextSession == Open \/ Spawn
SpecSession == InitSession /\ [][NextSession]_vars

\* calls on one pipe, with and without an inherited session
InitPipe == env \in {NoSessionEnv, SessionEnv} /\ InitPipeState
NextPipe == Open \/ Spawn \/ Tcp \/ Http \/ Call \/ Cmd \/ Cmdj \/ Close
SpecPipe == InitPipe /\ [][NextPipe]_vars

(***************************************************************************)
(* The worker pool.  R2Pipe::threads starts one thread per name; each      *)
(* thread builds its pipe with R2Pipe::spawn and then loops: take a        *)
(* command from its channel, stop on "q", run cmdj, publish the reply,     *)
(* start the callback.  The tool behind every connection echoes the        *)
(* command it is given, followed by one NUL byte, and may close its end    *)
(* at any time.  The caller uses each handle from one thread at a time     *)
(* (R2PipeThread holds an mpsc::Receiver, so it is not Sync).              *)
(***************************************************************************)
Q == <<"q">>
PoolCmds == {Q, <<"1">>, <<"[", SP, "]">>, <<SP, "q">>}

\* The calls of R2Pipe::threads that are run: the names, the options, the
\* environment of the process and whether a callback is given.  An empty name opens the inherited session when
\* there is one; every other worker spawns a child.
Input(ns, os, e, cb) == [names |-> ns, opts |-> os, env |-> e, callback |-> cb]
PoolInputs ==
    {Input(<<>>, <<>>, NoSessionEnv, FALSE),
     Input(<<>>, <<"None">>, NoSessionEnv, TRUE),
     Input(<<<<"b">>>>, <<>>, SessionEnv, FALSE),
     Input(<<<<>>, <<>>>>, <<"None">>, SessionEnv, FALSE),
     Input(<<<<"b">>>>, <<"None", "Some">>, NoSessionEnv, TRUE),
     Input(<<<<>>>>, <<"None">>, NoSessionEnv, FALSE),
     Input(<<<<"b">>>>, <<"Some">>, NoSessionEnv, FALSE),
     Input(<<<<"b">>>>, <<"None">>, SessionEnv, TRUE),
     Input(<<<<>>>>, <<"None">>, SessionEnv, FALSE),
     Input(<<<<>>>>, <<"None">>, SessionEnv, TRUE),
     Input(<<<<>>, <<>>>>, <<"None", "None">>, SessionEnv, FALSE)}

U16 == 65536

Running == Err("running")

NewThread(n) ==
    [id |-> (n - 1) % U16, pc |-> "spawn", cmd |-> <<>>, res |-> <<>>,
     result |-> Running, pipe |-> NoPipe]

NewHandle == [dropped |-> FALSE, blocked |-> FALSE]

ShorterLen(a, b) == IF Len(a) < Len(b) THEN Len(a) ELSE Len(b)

\* faulty variant: no check of the lengths, one thread per name that has options
threads_unchecked(ns, os, cb) ==
    [res |-> "Ok", workers |-> [n \in 1..ShorterLen(ns, os) |-> NewThread(n)]]

\* R2Pipe::threads: the result and the threads started
threads(ns, os, cb) ==
    IF Len(ns) # Len(os)
    THEN [res |-> "ArgumentMismatch", workers |-> <<>>]
    ELSE [res |-> "Ok", workers |-> [n \in 1..Len(ns) |-> NewThread(n)]]

Threads ==
    /\ threadsRes = "uncalled"
    /\ LET r == threads(names, opts, callback)
       IN  /\ threadsRes' = r.res
           /\ workers' = r.workers
           /\ txq' = [n \in DOMAIN r.workers |-> <<>>]
           /\ rxq' = [n \in DOMAIN r.workers |-> <<>>]
           /\ handles' = [n \in DOMAIN r.workers |-> NewHandle]
           /\ sent' = [n \in DOMAIN r.workers |-> <<>>]
           /\ got' = [n \in DOMAIN r.workers |-> <<>>]
           /\ ntaken' = [n \in DOMAIN r.workers |-> 0]
           /\ pub' = [n \in DOMAIN r.workers |-> <<>>]
    /\ UNCHANGED <<pipeVars, names, opts, callback, cbPending, cbLog, lastFail, iter>>

\* faulty variant: the thread returns Ok whatever went wrong
Finish_ok(w, r) ==
    /\ workers' = [workers EXCEPT ![w] =
                     [@ EXCEPT !.pc = "done", !.result = OkUnit, !.cmd = <<>>,
                               !.res = <<>>, !.pipe = NoPipe]]
    /\ txq' = [txq EXCEPT ![w] = <<>>]
    /\ conns' = [conns EXCEPT ![w] = FreshConn]

\* The thread's closure returns r: its ends of both channels go, and so does
\* its pipe.  Dropping a spawned pipe closes the child's streams, which nobody
\* can read afterwards; the inherited descriptors stay with the parent.
Finish(w, r) ==
    /\ workers' = [workers EXCEPT ![w] =
                     [@ EXCEPT !.pc = "done", !.result = r, !.cmd = <<>>,
                               !.res = <<>>, !.pipe = NoPipe]]
    /\ txq' = [txq EXCEPT ![w] = <<>>]
    /\ conns' = [conns EXCEPT ![w] = FreshConn]

\* let mut r2 = R2Pipe::spawn(name, opt)?;
WorkerSpawn(w) ==
    /\ workers[w].pc = "spawn"
    /\ \E launched \in BOOLEAN, hello \in Hellos :
         LET r == spawn(names[w], opts[w], env, w, launched, hello)
         IN  /\ dups' = dups + r.dups
             /\ procs' = procs + r.procs
             /\ IF r.res.ok
                THEN /\ workers' = [workers EXCEPT ![w].pipe = r.pipe, ![w].pc = "recv"]
                     /\ conns' = IF r.procs = 0 THEN conns
                                 ELSE [conns EXCEPT ![w] = [buf |-> r.hello, eof |-> FALSE]]
                     /\ UNCHANGED txq
                ELSE Finish(w, r.res)
    /\ UNCHANGED <<env, pipe, last, names, opts, callback, threadsRes, rxq, handles,
                   cbPending, cbLog, sent, got, ntaken, lastFail, pub, iter>>

\* faulty variant: a command that is "q" once trimmed ends the loop too
WorkerRecv_trimmed(w) ==
    /\ workers[w].pc = "recv"
    /\ txq[w] # <<>> \/ handles[w].dropped
    /\ IF txq[w] # <<>>
       THEN /\ ntaken' = [ntaken EXCEPT ![w] = @ + 1]
            /\ IF trim(Head(txq[w])) = Q
               THEN Finish(w, OkUnit)
               ELSE /\ workers' = [workers EXCEPT ![w].cmd = Head(txq[w]),
                                                  ![w].pc = "write"]
                    /\ txq' = [txq EXCEPT ![w] = Tail(@)]
                    /\ UNCHANGED conns
       ELSE /\ Finish(w, Err("RecvError"))
            /\ UNCHANGED ntaken
    /\ UNCHANGED <<env, pipe, dups, procs, last, names, opts, callback, threadsRes,
                   rxq, handles, cbPending, cbLog, sent, got, lastFail, pub, iter>>

\* let cmd: String = hrx.recv()?; if cmd == "q" { break; }
WorkerRecv(w) ==
    /\ workers[w].pc = "recv"
    /\ txq[w] # <<>> \/ handles[w].dropped
    /\ IF txq[w] # <<>>
       THEN /\ ntaken' = [ntaken EXCEPT ![w] = @ + 1]
            /\ IF Head(txq[w]) = Q
               THEN Finish(w, OkUnit)
               ELSE /\ workers' = [workers EXCEPT ![w].cmd = Head(txq[w]),
                                                  ![w].pc = "write"]
                    /\ txq' = [txq EXCEPT ![w] = Tail(@)]
                    /\ UNCHANGED conns
       ELSE /\ Finish(w, Err("RecvError"))
            /\ UNCHANGED ntaken
    /\ UNCHANGED <<env, pipe, dups, procs, last, names, opts, callback, threadsRes,
                   rxq, handles, cbPending, cbLog, sent, got, lastFail, pub, iter>>

\* r2.cmdj(&cmd), first half: the command is trimmed, framed and written.
\* The tool has stopped before (the write fails), or takes the command and
\* stops without an answer (mute), or answers with its echo.  Nobody looks at a
\* connection between two commands, so a tool that stops then is one that has
\* stopped before the next write.
WorkerWrite(w) ==
    /\ workers[w].pc = "write"
    /\ LET p == workers[w].pipe
           con == conns[p.conn]
       IN  \E fate \in {"stopped", "mute", "echo"} :
             IF write_all_ok(con) /\ fate # "stopped"
             THEN /\ conns' = [conns EXCEPT ![p.conn] =
                                 IF fate = "mute" THEN ToolWrites(con, <<>>, TRUE)
                                 ELSE ToolWrites(con, Echo(Frame(p, trim(workers[w].cmd))),
                                                 FALSE)]
                  /\ workers' = [workers EXCEPT ![w].pc = "read"]
                  /\ UNCHANGED txq
             ELSE Finish(w, Err("Io"))
    /\ UNCHANGED <<env, pipe, dups, procs, last, names, opts, callback, threadsRes,
                   rxq, handles, cbPending, cbLog, sent, got, ntaken, lastFail, pub, iter>>

\* cmdj of the variant a worker's pipe has, on what its cmd yielded
Worker_cmdj(p, x) ==
    IF p.variant = "Pipe" THEN R2PipeSpawn_cmdj(x) ELSE R2PipeLang_cmdj(x)

\* r2.cmdj(&cmd)?.to_string(), second half: the response is read, decoded,
\* parsed and serialised
WorkerRead(w) ==
    /\ workers[w].pc = "read"
    /\ LET p == workers[w].pipe
       IN  \E k \in ReadChoices(p.rbuf, conns[p.conn]) :
             LET x == Worker_cmdj(p, receive(p, conns[p.conn], k, <<>>))
             IN  IF x.res.ok
                 THEN /\ workers' = [workers EXCEPT ![w].pipe.rbuf = x.rbuf,
                                                    ![w].res = to_string(x.res.json),
                                                    ![w].pc = "send"]
                      /\ conns' = [conns EXCEPT ![p.conn] = x.con]
                      /\ UNCHANGED txq
                 ELSE /\ workers' = [workers EXCEPT ![w] =
                                       [@ EXCEPT !.pc = "done", !.result = x.res,
                                                 !.cmd = <<>>, !.res = <<>>,
                                                 !.pipe = NoPipe]]
                      /\ txq' = [txq EXCEPT ![w] = <<>>]
                      /\ conns' = [conns EXCEPT ![p.conn] = x.con, ![w] = FreshConn]
    /\ UNCHANGED <<env, pipe, dups, procs, last, names, opts, callback, threadsRes,
                   rxq, handles, cbPending, cbLog, sent, got, ntaken, lastFail, pub, iter>>

\* faulty variant: the reply is dropped instead of being enqueued
publish_lost(q, res, closed) == [ok |-> ~closed, q |-> q]

\* faulty variant: the worker does not notice that the receiver is gone
publish_blind(q, res, closed) ==
    [ok |-> TRUE, q |-> IF closed THEN q ELSE Append(q, res)]

\* htx.send(res.clone()): fails when the receiver is gone
publish(q, res, closed) ==
    IF closed THEN [ok |-> FALSE, q |-> q] ELSE [ok |-> TRUE, q |-> Append(q, res)]

\* htx.send(res.clone())?;
WorkerPublish(w) ==
    /\ workers[w].pc = "send"
    /\ LET r == publish(rxq[w], workers[w].res, handles[w].dropped)
       IN  IF r.ok
           THEN /\ rxq' = [rxq EXCEPT ![w] = r.q]
                /\ pub' = [pub EXCEPT ![w] = @ \o SubSeq(r.q, Len(rxq[w]) + 1, Len(r.q))]
                /\ workers' = [workers EXCEPT
                                 ![w].pc = IF callback THEN "callback" ELSE "recv",
                                 ![w].cmd = <<>>,
                                 ![w].res = IF callback THEN @ ELSE <<>>]
                /\ UNCHANGED <<txq, conns>>
           ELSE /\ Finish(w, Err("SendError"))
                /\ UNCHANGED <<rxq, pub>>
    /\ UNCHANGED <<env, pipe, dups, procs, last, names, opts, callback, threadsRes,
                   handles, cbPending, cbLog, sent, got, ntaken, lastFail, iter>>

Task(id, text) == [id |-> id, text |-> text]

\* faulty variant: the callback thread is started twice
WorkerCallback_twice(w) ==
    /\ workers[w].pc = "callback"
    /\ cbPending' = cbPending (+) SetToBag({Task(workers[w].id, workers[w].res)})
                              (+) SetToBag({Task(workers[w].id, workers[w].res)})
    /\ workers' = [workers EXCEPT ![w].pc = "recv", ![w].res = <<>>]
    /\ UNCHANGED <<pipeVars, names, opts, callback, threadsRes, txq, rxq, handles,
                   cbLog, sent, got, ntaken, lastFail, pub, iter>>

\* if let Some(cbs) = cb.clone() { thread::spawn(move || { cbs(n as u16, res); }); }
WorkerCallback(w) ==
    /\ workers[w].pc = "callback"
    /\ cbPending' = cbPending (+) SetToBag({Task(workers[w].id, workers[w].res)})
    /\ workers' = [workers EXCEPT ![w].pc = "recv", ![w].res = <<>>]
    /\ UNCHANGED <<pipeVars, names, opts, callback, threadsRes, txq, rxq, handles,
                   cbLog, sent, got, ntaken, lastFail, pub, iter>>

\* a detached callback thread runs: cbs(n as u16, res)
CallbackRun ==
    /\ \E t \in BagToSet(cbPending) :
         /\ cbPending' = cbPending (-) SetToBag({t})
         /\ cbLog' = cbLog (+) SetToBag({t})
    /\ UNCHANGED <<pipeVars, names, opts, callback, threadsRes, workers, txq, rxq,
                   handles, sent, got, ntaken, lastFail, pub, iter>>

RECURSIVE SumLen(_)
SumLen(qs) == IF qs = <<>> THEN 0 ELSE Len(Head(qs)) + SumLen(Tail(qs))

\* faulty variant: send never notices that the worker is gone
R2PipeThread_send_blind(q, closed, c) == [res |-> OkUnit, q |-> Append(q, c)]

\* R2PipeThread::send on a command channel whose receiver is gone (closed) or not
R2PipeThread_send(q, closed, c) ==
    IF closed THEN [res |-> Err("SendError"), q |-> q]
    ELSE [res |-> OkUnit, q |-> Append(q, c)]

\* faulty variant: a closed reply channel fails before its queued replies are
\* handed out
R2PipeThread_recv_closed_first(q, closed, block) ==
    IF closed
    THEN [res |-> Err(IF block THEN "RecvError" ELSE "TryRecvError::Disconnected"),
          q |-> q, blocks |-> FALSE]
    ELSE IF q # <<>> THEN [res |-> OkText(Head(q)), q |-> Tail(q), blocks |-> FALSE]
    ELSE IF block THEN [res |-> Running, q |-> q, blocks |-> TRUE]
    ELSE [res |-> Err("TryRecvError::Empty"), q |-> q, blocks |-> FALSE]

\* faulty variant: recv waits for a reply whatever its argument says
R2PipeThread_recv_waits(q, closed, block) ==
    IF q # <<>> THEN [res |-> OkText(Head(q)), q |-> Tail(q), blocks |-> FALSE]
    ELSE IF closed
    THEN [res |-> Err("RecvError"), q |-> q, blocks |-> FALSE]
    ELSE [res |-> Running, q |-> q, blocks |-> TRUE]

\* faulty variant: recv(true) goes on waiting on a reply channel that is empty
\* and whose sender is gone
R2PipeThread_recv_hangs(q, closed, block) ==
    IF q # <<>> THEN [res |-> OkText(Head(q)), q |-> Tail(q), blocks |-> FALSE]
    ELSE IF block THEN [res |-> Running, q |-> q, blocks |-> TRUE]
    ELSE [res |-> Err(IF closed THEN "TryRecvError::Disconnected"
                      ELSE "TryRecvError::Empty"), q |-> q, blocks |-> FALSE]

\* R2PipeThread::recv on a reply channel whose sender is gone (closed) or not;
\* blocks says that recv(true) has to wait
R2PipeThread_recv(q, closed, block) ==
    IF q # <<>> THEN [res |-> OkText(Head(q)), q |-> Tail(q), blocks |-> FALSE]
    ELSE IF closed
    THEN [res |-> Err(IF block THEN "RecvError" ELSE "TryRecvError::Disconnected"),
          q |-> q, blocks |-> FALSE]
    ELSE IF block THEN [res |-> Running, q |-> q, blocks |-> TRUE]
    ELSE [res |-> Err("TryRecvError::Empty"), q |-> q, blocks |-> FALSE]

Usable(w) ==
    /\ threadsRes = "Ok" /\ w \in DOMAIN workers
    /\ ~handles[w].dropped /\ ~handles[w].blocked

Gone(w) == workers[w].pc = "done"

Send(w) ==
    /\ Usable(w)
    /\ SumLen(sent) < MaxSends
    /\ \E c \in PoolCmds :
         LET r == R2PipeThread_send(txq[w], Gone(w), c)
         IN  /\ txq' = [txq EXCEPT ![w] = r.q]
             /\ sent' = [sent EXCEPT ![w] = IF r.res.ok THEN Append(@, c) ELSE @]
             /\ lastFail' = IF r.res.ok THEN lastFail ELSE [w |-> w, op |-> "send"]
    /\ UNCHANGED <<pipeVars, names, opts, callback, threadsRes, workers, rxq, handles,
                   cbPending, cbLog, got, ntaken, pub, iter>>

\* recv returns r to the caller
RecvReturns(w, block, r) ==
    /\ rxq' = [rxq EXCEPT ![w] = r.q]
    /\ got' = [got EXCEPT ![w] = IF r.res.ok THEN Append(@, r.res.text) ELSE @]
    /\ handles' = [handles EXCEPT ![w].blocked = FALSE]
    /\ lastFail' = IF r.res.ok \/ ~Gone(w) THEN lastFail
                   ELSE [w |-> w, op |-> IF block THEN "recv" ELSE "try_recv"]

Recv(w) ==
    /\ Usable(w)
    /\ \E block \in BOOLEAN :
         LET r == R2PipeThread_recv(rxq[w], Gone(w), block)
         IN  IF r.blocks
             THEN /\ handles' = [handles EXCEPT ![w].blocked = TRUE]
                  /\ UNCHANGED <<rxq, got, lastFail>>
             ELSE RecvReturns(w, block, r)
    /\ UNCHANGED <<pipeVars, names, opts, callback, threadsRes, workers, txq,
                   cbPending, cbLog, sent, ntaken, pub, iter>>

\* a caller waiting in recv(true) is released
RecvWakes(w) ==
    /\ threadsRes = "Ok" /\ w \in DOMAIN workers
    /\ handles[w].blocked
    /\ LET r == R2PipeThread_recv(rxq[w], Gone(w), TRUE)
       IN  ~r.blocks /\ RecvReturns(w, TRUE, r)
    /\ UNCHANGED <<pipeVars, names, opts, callback, threadsRes, workers, txq,
                   cbPending, cbLog, sent, ntaken, pub, iter>>

\* The caller drops the handle: both of its channel ends go, the thread is
\* detached.  Dropping the handle of a thread that has returned changes nothing
\* anyone can see, so only the handle of a running thread is dropped here.
Drop(w) ==
    /\ Usable(w)
    /\ ~Gone(w)
    /\ handles' = [handles EXCEPT ![w].dropped = TRUE]
    /\ rxq' = [rxq EXCEPT ![w] = <<>>]
    /\ UNCHANGED <<pipeVars, names, opts, callback, threadsRes, workers, txq,
                   cbPending, cbLog, sent, got, ntaken, lastFail, pub, iter>>

InitPool ==
    /\ \E i \in PoolInputs :
         names = i.names /\ opts = i.opts /\ env = i.env /\ callback = i.callback
    /\ conns = [c \in 0..Len(names) |-> FreshConn]
    /\ pipe = NoPipe /\ dups = 0 /\ procs = 0 /\ last = NoCall
    /\ threadsRes = "uncalled"
    /\ workers = <<>> /\ txq = <<>> /\ rxq = <<>> /\ handles = <<>>
    /\ cbPending = EmptyBag /\ cbLog = EmptyBag
    /\ sent = <<>> /\ got = <<>> /\ ntaken = <<>>
    /\ lastFail = NoFail
    /\ pub = <<>>
    /\ iter = NoIter

NextPool ==
    \/ Threads
    \/ \E w \in DOMAIN workers :
         \/ WorkerSpawn(w) \/ WorkerRecv(w) \/ WorkerWrite(w) \/ WorkerRead(w)
         \/ WorkerPublish(w) \/ WorkerCallback(w)
         \/ Send(w) \/ Recv(w) \/ RecvWakes(w) \/ Drop(w)
    \/ CallbackRun

SpecPool == InitPool /\ [][NextPool]_vars

\* the positions of the workers of the largest pool of PoolInputs
WorkerIds == 1..2

\* A thread waiting in Receiver::recv is woken when a message is queued or the
\* channel is disconnected, and then runs.
SpecPoolFair == SpecPool /\ \A w \in WorkerIds : WF_vars(RecvWakes(w))

(***************************************************************************)
(* One iteration of the loop of R2Pipe::threads, looked at alone: the      *)
(* handle it pushes.  The iterations lie on both sides of the largest      *)
(* value the id field of a handle can hold.                                *)
(***************************************************************************)
Iterations == (1..30) \cup ((U16 - 15)..(U16 + 15))

\* pipes.push(R2PipeThread { r2recv: rx, r2send: tx, id: n as u16, handle: t })
Push ==
    /\ iter.n > 0 /\ ~iter.pushed
    /\ iter' = [iter EXCEPT !.pushed = TRUE, !.id = NewThread(iter.n).id]
    /\ UNCHANGED <<pipeVars, names, opts, callback, threadsRes, workers, txq, rxq,
                   handles, cbPending, cbLog, sent, got, ntaken, lastFail, pub>>

InitHandle ==
    /\ \E n \in Iterations : iter = [n |-> n, pushed |-> FALSE, id |-> 0]
    /\ env = NoSessionEnv
    /\ conns = [c \in {SessionConn, MainChild} |-> FreshConn]
    /\ pipe = NoPipe /\ dups = 0 /\ procs = 0 /\ last = NoCall
    /\ names = <<>> /\ opts = <<>> /\ callback = FALSE
    /\ threadsRes = "uncalled"
    /\ workers = <<>> /\ txq = <<>> /\ rxq = <<>> /\ handles = <<>>
    /\ cbPending = EmptyBag /\ cbLog = EmptyBag
    /\ sent = <<>> /\ got = <<>> /\ ntaken = <<>>
    /\ lastFail = NoFail
    /\ pub = <<>>

NextHandle == Push

SpecHandle == InitHandle /\ [][NextHandle]_vars

(***************************************************************************)
(* Properties of the worker pool.                                          *)
(***************************************************************************)
\* C1: threads called with names and options of different lengths returns
\* ArgumentMismatch, and that call starts no worker thread, creates no
\* channel and launches no process (nor opens any descriptor).
C1_MismatchStartsNothing ==
    (threadsRes # "uncalled" /\ Len(names) # Len(opts)) =>
        /\ threadsRes = "ArgumentMismatch"
        /\ workers = <<>> /\ handles = <<>>
        /\ txq = <<>> /\ rxq = <<>>
        /\ procs = 0 /\ dups = 0
        /\ cbPending = EmptyBag /\ cbLog = EmptyBag

C1_Witness ==
    threadsRes = "ArgumentMismatch" /\ Len(names) = 1 /\ Len(opts) = 2

\* what a worker answers for the command c when the tool answers c alone:
\* the tool's echo of the trimmed command, parsed and serialised
Executed(c) == to_string(from_str(trim(c)).json)

\* C2, as stated: for every worker the k-th reply obtained from recv is the
\* result of executing the k-th command sent to that worker.
C2_StrictFifo ==
    \A w \in DOMAIN got :
        \A k \in 1..Len(got[w]) :
            k <= Len(sent[w]) /\ got[w][k] = Executed(sent[w][k])

\* C3, as stated: after "q" has been sent to a worker, any later send on that
\* worker fails, so no command is ever accepted behind a "q".
C3_NothingAfterQuit ==
    \A w \in DOMAIN sent :
        \A i \in 1..Len(sent[w]) : sent[w][i] = Q => i = Len(sent[w])

\* C3, amended: a worker that takes "q" from its command channel terminates
\* with Ok at once, "q" being the last command it takes; and once a worker's
\* thread has terminated no send on it is accepted, each failing with the
\* closed-channel error.  A send that follows "q" before the thread has
\* terminated is accepted.
C3_QuitTerminates ==
    \A w \in DOMAIN workers :
        /\ ntaken[w] <= Len(sent[w])
        /\ \A i \in 1..ntaken[w] :
             sent[w][i] = Q =>
                 i = ntaken[w] /\ Gone(w) /\ workers[w].result = OkUnit
        /\ Gone(w) => txq[w] = <<>>
        /\ ~Gone(w) => Len(txq[w]) = Len(sent[w]) - ntaken[w]
        /\ R2PipeThread_send(txq[w], Gone(w), Q).res.ok <=> ~Gone(w)

C3_Witness ==
    \E w \in DOMAIN workers :
        /\ Gone(w) /\ workers[w].result = OkUnit
        /\ ntaken[w] > 0 /\ sent[w][ntaken[w]] = Q
        /\ lastFail = [w |-> w, op |-> "send"]

\* C4, as stated: a reply produced for a command sent to one worker is never
\* observed by recv on another, so every reply obtained from a worker is the
\* result of a command that was sent to that worker.
C4_Isolated ==
    \A j \in DOMAIN got :
        \A k \in 1..Len(got[j]) :
            \E i \in 1..Len(sent[j]) : got[j][k] = Executed(sent[j][i])

\* the caller waits in recv(true) on a worker that waits for its next command,
\* and neither channel holds anything
Stuck(w) ==
    /\ handles[w].blocked /\ ~handles[w].dropped
    /\ rxq[w] = <<>>
    /\ workers[w].pc = "recv" /\ txq[w] = <<>>

\* C5, as stated: the caller is never blocked in recv(true) while the worker
\* is blocked waiting for its next command.
C5_NoDeadlock == \A w \in DOMAIN workers : ~Stuck(w)

\* C5, amended: the caller is blocked in recv(true) while the worker waits for
\* its next command only when no command is outstanding: every command sent to
\* the worker has been taken and answered and its reply fetched, so recv(true)
\* was called once more than there were commands to answer.
C5_StuckOnlyWhenIdle ==
    \A w \in DOMAIN workers :
        Stuck(w) =>
            /\ ntaken[w] = Len(sent[w])
            /\ Len(got[w]) = Len(sent[w])
            /\ \A i \in 1..Len(sent[w]) : sent[w][i] # Q

C5_Witness ==
    \E w \in DOMAIN workers : Stuck(w) /\ Len(sent[w]) > 0 /\ Len(got[w]) > 0

(***************************************************************************)
(* Properties of the single-pipe operations.                               *)
(***************************************************************************)
\* a cmd call that returned after the transport carried the exchange
CmdReturned ==
    last.op = "cmd" /\ last.done /\ last.res.err \notin {"Io", "Http"}

Framed == last.variant \in {"Pipe", "Lang"}

\* the bytes of s before its first NUL, all of s when it has none
RECURSIVE BeforeNul(_)
BeforeNul(s) ==
    IF s = <<>> \/ Head(s) = NUL THEN <<>> ELSE <<Head(s)>> \o BeforeNul(Tail(s))

\* C6, as stated: cmd returns EmptyResponse when the bytes received for the
\* response are the empty sequence, on every transport, and on the spawned
\* and inherited transports also when they are exactly one NUL byte.
C6_EmptyIsError ==
    (CmdReturned /\ (last.raw = <<>> \/ (Framed /\ last.raw = <<NUL>>)))
        => last.res = Err("EmptyResponse")

\* C6, amended: cmd returns EmptyResponse exactly when, on the spawned or the
\* inherited transport, zero bytes were read before end of stream; when the
\* bytes read are exactly one NUL byte, and on TCP and HTTP when nothing was
\* received, it returns success with the empty string.
C6_EmptyResponse ==
    CmdReturned =>
        /\ (last.res = Err("EmptyResponse")) <=> (Framed /\ last.raw = <<>>)
        /\ (Framed /\ last.raw = <<NUL>>) => last.res = OkText(<<>>)
        /\ (~Framed /\ last.raw = <<>>) => last.res = OkText(<<>>)

C6_Witness ==
    CmdReturned /\ last.variant = "Pipe" /\ last.raw = <<>> /\ last.atEof
        /\ last.res = Err("EmptyResponse")

\* a cmdj call that returned, whose cmd decoded a text
CmdjDecoded == last.op = "cmdj" /\ last.done /\ last.inner.ok

\* C7, as stated: cmdj returns a ParseError when the decoded text is empty or
\* is not valid JSON, on all four variants alike, and the parsed value otherwise.
C7_EmptyIsParseError ==
    CmdjDecoded =>
        IF last.inner.text = <<>> \/ ~from_str(last.inner.text).ok
        THEN last.res = Err("ParseError")
        ELSE last.res = from_str(last.inner.text)

\* C7, amended: cmdj returns a ParseError when the decoded text is not valid
\* JSON and the parsed value when it is; for the empty text the inherited,
\* TCP and HTTP variants return that ParseError, the spawned-process variant
\* returns EmptyResponse instead.
C7_ParseOrEmpty ==
    CmdjDecoded =>
        /\ IF last.inner.text = <<>> /\ last.variant = "Pipe"
           THEN last.res = Err("EmptyResponse")
           ELSE last.res = from_str(last.inner.text)
        /\ last.res.ok =>
             /\ Range(to_string(last.res.json)) \cap Whitespace = {}
             /\ from_str(to_string(last.res.json)) = last.res
        /\ ~last.res.ok => last.res.err \in {"ParseError", "EmptyResponse"}
        /\ last.inner.text = <<>> => ~last.res.ok

C7_Witness ==
    /\ CmdjDecoded /\ last.variant = "Pipe" /\ last.inner.text = <<>>
    /\ last.res = Err("EmptyResponse")

\* a cmd call on the spawned transport that a tool answered with the echo of
\* what it was given and one NUL, nothing else being unread
EchoedCmd ==
    /\ last.op = "cmd" /\ last.done /\ last.variant = "Pipe" /\ last.echo
    /\ last.arg # <<>>

\* C8, as stated: against an echoing tool, cmd on the spawned transport
\* returns exactly the command passed, whitespace around it included.
C8_EchoIsCommand == EchoedCmd => last.res = OkText(last.arg)

\* C8, amended: against an echoing tool, cmd on the spawned transport returns
\* the command without its leading and trailing whitespace, up to its first
\* NUL byte if it has one; it is the command passed exactly when the command
\* has no whitespace at either end and no NUL byte.
C8_EchoIsTrimmed ==
    EchoedCmd =>
        /\ last.res = OkText(BeforeNul(trim(last.arg)))
        /\ (last.res = OkText(last.arg)) <=>
             /\ Head(last.arg) \notin Whitespace
             /\ last.arg[Len(last.arg)] \notin Whitespace
             /\ NUL \notin Range(last.arg)

C8_Witness ==
    EchoedCmd /\ last.arg = <<SP, "1">> /\ last.res = OkText(<<"1">>)

\* C9: on the spawned and inherited transports, for every non-empty byte
\* sequence read for one response, whether the read ended at a NUL byte or at
\* end of stream, cmd returns the bytes that precede the NUL delimiter and
\* removes no byte that is not the delimiter.
C9_OnlyDelimiterStripped ==
    (CmdReturned /\ Framed /\ last.raw # <<>> /\ from_utf8_ok(last.raw))
        => last.res = OkText(BeforeNul(last.raw))

\* a text that spells an integer >= 0: an optional sign and at least one
\* digit, the digits all zero under a minus sign
NonNegative(v) ==
    LET signed == v.val # <<>> /\ Head(v.val) \in {"+", "-"}
        d == IF signed THEN Tail(v.val) ELSE v.val
    IN  /\ v.set
        /\ d # <<>>
        /\ \A i \in 1..Len(d) : d[i] \in Digits
        /\ (signed /\ Head(v.val) = "-") => \A i \in 1..Len(d) : d[i] = "0"

\* C10: open fails with NoSession, and duplicates no descriptor, whenever
\* R2PIPE_IN or R2PIPE_OUT is absent, non-numeric or negative; it builds an
\* inherited session only when both spell integers >= 0.
C10_OpenNeedsBoth ==
    last.op = "open" =>
        IF NonNegative(env.r2in) /\ NonNegative(env.r2out)
        THEN last.res.ok /\ pipe.variant = "Lang" /\ dups = 2
        ELSE last.res = Err("NoSession") /\ pipe = NoPipe /\ dups = 0

C10_Witness ==
    /\ last.op = "open" /\ last.res = Err("NoSession") /\ dups = 0
    /\ env.r2in = Present(<<"3">>) /\ env.r2out = Present(<<"-", "3">>)

(***************************************************************************)
(* Properties of the handles, of failures inside a worker and of recv.     *)
(***************************************************************************)
\* C11, as stated: when the lengths agree, threads returns one handle per
\* name, in request order, the handle at position i (counted from 0) having
\* id == i.
C11_IdIsIndex ==
    /\ (threadsRes # "uncalled" /\ Len(names) = Len(opts)) =>
          /\ threadsRes = "Ok"
          /\ Len(workers) = Len(names) /\ Len(handles) = Len(names)
          /\ \A n \in DOMAIN workers : workers[n].id = n - 1
    /\ iter.pushed => iter.id = iter.n - 1

\* the errors the execution of a command can end with
CmdErrors == {"Io", "EmptyResponse", "ParseError", "DecodeError"}

\* the errors of a channel whose other end is gone
ClosedErrors == {"SendError", "RecvError", "TryRecvError::Disconnected"}

\* the worker has taken a command whose execution failed: its thread has
\* returned that error
CmdFailed(w) ==
    Gone(w) /\ ntaken[w] > 0 /\ workers[w].result.err \in CmdErrors

\* C12, as stated: when the execution of a command fails inside a worker, the
\* thread's result is that error, no reply is published for the command, and
\* the caller's next send or recv on the handle fails with a closed-channel
\* error.
C12_NextCallFails ==
    \A w \in DOMAIN workers :
        (CmdFailed(w) /\ ~handles[w].dropped) =>
            /\ Len(pub[w]) = ntaken[w] - 1
            /\ R2PipeThread_send(txq[w], Gone(w), Q).res.err \in ClosedErrors
            /\ \A block \in BOOLEAN :
                 R2PipeThread_recv(rxq[w], Gone(w), block).res.err \in ClosedErrors

\* C12, amended: when the execution of a command fails inside a worker, the
\* thread's result is that error, no reply is published for the command and
\* the caller's next send fails with a closed-channel error; the caller's recv
\* first returns, oldest first, the replies published for earlier commands and
\* not yet fetched, and fails with a closed-channel error once none is left.
C12_FailureClosesChannels ==
    \A w \in DOMAIN workers :
        CmdFailed(w) =>
            /\ ~workers[w].result.ok
            /\ Len(pub[w]) = ntaken[w] - 1
            /\ \A i \in 1..ntaken[w] : sent[w][i] # Q
            /\ txq[w] = <<>>
            /\ R2PipeThread_send(txq[w], Gone(w), Q).res = Err("SendError")
            /\ ~handles[w].dropped =>
                 /\ pub[w] = got[w] \o rxq[w]
                 /\ \A block \in BOOLEAN :
                      LET r == R2PipeThread_recv(rxq[w], Gone(w), block)
                      IN  /\ ~r.blocks
                          /\ IF rxq[w] # <<>>
                             THEN r.res = OkText(Head(rxq[w])) /\ r.q = Tail(rxq[w])
                             ELSE r.res.err \in ClosedErrors /\ r.q = rxq[w]

C12_Witness ==
    \E w \in DOMAIN workers :
        CmdFailed(w) /\ ~handles[w].dropped /\ rxq[w] # <<>>

\* what recv(false) returns in the current state of worker w's reply channel
TryRecv(w) == R2PipeThread_recv(rxq[w], Gone(w), FALSE)

\* a step in which recv hands a reply of worker w to the caller
Fetches(w) == w \in DOMAIN got /\ w \in DOMAIN got' /\ got'[w] # got[w]

\* C13: recv(false) never blocks; with a reply queued it returns the oldest
\* one and removes exactly that one; with none queued it fails at once and
\* leaves the reply queue and the worker as they are.  Every step that hands
\* a reply to the caller takes the head of the reply queue and touches neither
\* the worker nor its command queue.
C13_TryRecvNeverBlocks ==
    /\ [](\A w \in DOMAIN workers :
            /\ ~TryRecv(w).blocks
            /\ rxq[w] # <<>> =>
                 /\ TryRecv(w).res = OkText(Head(rxq[w]))
                 /\ TryRecv(w).q = Tail(rxq[w])
            /\ rxq[w] = <<>> =>
                 /\ TryRecv(w).res.err =
                      IF Gone(w) THEN "TryRecvError::Disconnected"
                      ELSE "TryRecvError::Empty"
                 /\ TryRecv(w).q = rxq[w])
    /\ [][/\ \A w \in 1..Len(names) :
              Fetches(w) =>
                  /\ rxq[w] # <<>>
                  /\ got'[w] = Append(got[w], Head(rxq[w]))
                  /\ rxq'[w] = Tail(rxq[w])
                  /\ workers' = workers /\ txq' = txq /\ pub' = pub
          /\ (lastFail' # lastFail /\ lastFail'.op = "try_recv") =>
                  /\ rxq' = rxq /\ got' = got
                  /\ workers' = workers /\ txq' = txq /\ pub' = pub]_vars

C13_Witness ==
    \E w \in DOMAIN workers :
        lastFail = [w |-> w, op |-> "try_recv"] /\ got[w] # <<>> /\ rxq[w] = <<>>

\* the caller waits in recv(true) on worker w
Waiting(w) == w \in DOMAIN handles /\ handles[w].blocked

\* C14: a caller blocked in recv(true) is released once a reply is queued or
\* the worker's thread has returned, whatever it returned; it is released with
\* the oldest queued reply while there is one, and with a closed-channel error
\* only when the thread has returned and no reply is left.
C14_BlockedRecvReleased ==
    /\ \A w \in WorkerIds :
         (Waiting(w) /\ (rxq[w] # <<>> \/ Gone(w))) ~> ~Waiting(w)
    /\ [][\A w \in WorkerIds :
            (Waiting(w) /\ ~handles'[w].blocked) =>
                IF rxq[w] # <<>>
                THEN /\ got'[w] = Append(got[w], Head(rxq[w]))
                     /\ rxq'[w] = Tail(rxq[w])
                     /\ lastFail' = lastFail
                ELSE /\ Gone(w)
                     /\ got' = got /\ rxq' = rxq
                     /\ lastFail' = [w |-> w, op |-> "recv"]]_vars

C14_Witness ==
    \E w \in DOMAIN workers : Waiting(w) /\ Gone(w) /\ rxq[w] # <<>>

\* the callback threads started so far, run or not
Started == cbPending (+) cbLog

\* how often x occurs in the sequence q
Occurrences(q, x) == Cardinality({k \in 1..Len(q) : q[k] = x})

\* the commands worker w has taken that are not the sentinel
TakenCommands(w) == {i \in 1..ntaken[w] : sent[w][i] # Q}

\* C15: the callback is invoked at most once per reply published on a worker's
\* reply channel, each time with that worker's id and a reply string that was
\* published there; no reply, and so no invocation, exists for the sentinel
\* "q" or for a command whose execution failed; without a callback nothing is
\* ever invoked.
C15_CallbackPerReply ==
    /\ \A t \in BagToSet(Started) :
         \E w \in DOMAIN workers :
             /\ t.id = workers[w].id
             /\ CopiesIn(t, Started) <= Occurrences(pub[w], t.text)
    /\ \A w \in DOMAIN workers :
         /\ Len(pub[w]) <= Cardinality(TakenCommands(w))
         /\ CmdFailed(w) => Len(pub[w]) < Cardinality(TakenCommands(w))
    /\ ~callback => Started = EmptyBag

C15_Witness ==
    \E w \in DOMAIN workers :
        /\ callback /\ Len(pub[w]) = 2
        /\ BagCardinality(cbLog) = 2
        /\ \A t \in BagToSet(cbLog) : t.id = workers[w].id /\ t.text = pub[w][1]

(***************************************************************************)
(* Properties of close and of spawn.                                       *)
(***************************************************************************)
\* close has been called and has not returned yet
ClosePending == last.op = "close" /\ ~last.done

\* a step in which close returns
CloseReturns == ClosePending /\ last'.done

\* C16: close returns no error and leaves the variant of the pipe as it is,
\* whatever the tool does.  On the spawned variant it writes the quit command
\* once and drops the result of that exchange; on the TCP and HTTP variants
\* (and on the inherited one) it writes nothing and changes nothing.
C16_CloseBestEffort ==
    /\ [](ClosePending =>
            \A io \in IOChoices(pipe, conns[pipe.conn], Frame(pipe, Quit)) :
                LET x == R2Pipe_close(pipe, conns[pipe.conn], io)
                IN  /\ x.res = OkUnit
                    /\ IF pipe.variant = "Pipe"
                       THEN /\ x.wrote = Quit \o <<NL>>
                            /\ x.inner =
                                 R2PipeSpawn_cmd(pipe, conns[pipe.conn], Quit, io).res
                       ELSE /\ x.wrote = <<>>
                            /\ x.con = conns[pipe.conn]
                            /\ x.rbuf = pipe.rbuf)
    /\ [][CloseReturns =>
            /\ last'.res = OkUnit
            /\ pipe'.variant = pipe.variant
            /\ dups' = dups /\ procs' = procs /\ env' = env
            /\ pipe.variant # "Pipe" => (pipe' = pipe /\ conns' = conns)]_vars

C16_Witness ==
    /\ last.op = "close" /\ last.done /\ last.variant = "Pipe"
    /\ last.inner = Err("EmptyResponse")
    /\ last.res = OkUnit /\ pipe.variant = "Pipe"

\* spawn was called with the empty name while both R2PIPE_IN and R2PIPE_OUT
\* spell integers >= 0
SpawnInSession ==
    last.arg = <<>> /\ NonNegative(env.r2in) /\ NonNegative(env.r2out)

\* C17, as stated: spawn delegates to open and launches no process exactly
\* when the name is empty and a session is inherited; in every other case it
\* launches a child process and never produces an inherited-session pipe.
C17_ElseLaunches ==
    last.op = "spawn" =>
        IF SpawnInSession
        THEN last.res.ok /\ pipe = R2PipeLang(SessionConn) /\ procs = 0 /\ dups = 2
        ELSE procs = 1 /\ pipe.variant # "Lang" /\ dups = 0

\* C17, amended: spawn delegates to open and launches no process exactly when
\* the name is empty and a session is inherited; in every other case it never
\* opens the inherited session and tries to launch a child process: it returns
\* a spawned-process pipe when the child was launched and wrote its first byte,
\* and an I/O error otherwise, no process existing when the launch itself failed.
C17_ElseTriesToLaunch ==
    last.op = "spawn" =>
        IF SpawnInSession
        THEN last.res.ok /\ pipe = R2PipeLang(SessionConn) /\ procs = 0 /\ dups = 2
        ELSE /\ pipe.variant # "Lang" /\ dups = 0
             /\ procs \in {0, 1}
             /\ IF last.res.ok
                THEN procs = 1 /\ pipe = R2PipeSpawn(MainChild)
                ELSE last.res = Err("Io") /\ pipe = NoPipe
             /\ procs = 0 => ~last.res.ok

C17_Witness ==
    /\ last.op = "spawn" /\ last.arg = <<>>
    /\ env.r2in = Present(<<"3">>) /\ env.r2out = Absent
    /\ last.res = Err("Io") /\ procs = 0 /\ pipe = NoPipe

(***************************************************************************)
(* Properties of the worker loop.                                          *)
(***************************************************************************)
\* the construction of worker w's pipe has not been tried yet
Unbuilt(w) == workers[w].pc = "spawn"

\* a step in which the construction of worker w's pipe fails
BuildFails(w) ==
    /\ w \in DOMAIN workers /\ Unbuilt(w)
    /\ w \in DOMAIN workers' /\ workers'[w].pc = "done"

\* worker w's thread has returned the error of a failed construction
BuildFailed(w) ==
    Gone(w) /\ ntaken[w] = 0 /\ workers[w].result = Err("Io")

\* C18: with as many options as names, threads returns Ok with one handle per
\* name whatever happens to the workers' pipes.  A worker whose construction
\* fails returns that error from its thread without having taken a command;
\* the caller's calls on its handle see closed channels, not that error.
C18_BuildFailureInThread ==
    /\ []((threadsRes # "uncalled" /\ Len(names) = Len(opts)) =>
            /\ threadsRes = "Ok"
            /\ Len(handles) = Len(names) /\ Len(workers) = Len(names))
    /\ [](\A w \in DOMAIN workers :
            /\ Unbuilt(w) => (ntaken[w] = 0 /\ pub[w] = <<>>)
            /\ (Gone(w) /\ ntaken[w] = 0) =>
                 /\ pub[w] = <<>> /\ rxq[w] = <<>> /\ got[w] = <<>>
                 /\ workers[w].result.err \in {"Io", "RecvError"}
                 /\ workers[w].result.err = "RecvError" => handles[w].dropped
            /\ BuildFailed(w) =>
                 /\ R2PipeThread_send(txq[w], Gone(w), Q).res = Err("SendError")
                 /\ R2PipeThread_recv(rxq[w], Gone(w), TRUE).res = Err("RecvError")
                 /\ R2PipeThread_recv(rxq[w], Gone(w), FALSE).res
                      = Err("TryRecvError::Disconnected"))
    /\ [][\A w \in WorkerIds :
            BuildFails(w) =>
                /\ workers'[w].result = Err("Io")
                /\ ntaken'[w] = 0 /\ sent' = sent /\ pub' = pub
                /\ txq'[w] = <<>>
                /\ threadsRes' = "Ok" /\ handles' = handles]_vars

C18_Witness ==
    /\ threadsRes = "Ok" /\ Len(workers) = 1 /\ Len(handles) = 1
    /\ \A w \in DOMAIN workers : BuildFailed(w) /\ ~handles[w].dropped
    /\ lastFail.op = "send"

\* the number of callback threads started with worker w's id
StartedFor(w) ==
    LET ts == {t \in BagToSet(Started) : t.id = workers[w].id}
    IN  BagCardinality([t \in ts |-> CopiesIn(t, Started)])

\* a step in which worker w fails to publish a reply
PublishFails(w) ==
    /\ w \in DOMAIN workers /\ workers[w].pc = "send"
    /\ workers'[w].pc = "done"

\* C19: the callback thread for a reply is started only after the reply has
\* been enqueued, so for every worker the callbacks started are at most the
\* replies published, which are at most the non-sentinel commands taken; a
\* reply that cannot be published because the caller dropped the receiving end
\* gets no callback, and the worker's thread returns.
C19_CallbackAfterPublish ==
    /\ [](\A w \in DOMAIN workers :
            /\ StartedFor(w) <= Len(pub[w])
            /\ Len(pub[w]) <= Cardinality(TakenCommands(w))
            /\ callback =>
                 StartedFor(w) =
                     Len(pub[w]) - (IF workers[w].pc = "callback" THEN 1 ELSE 0)
            /\ workers[w].pc \in {"write", "read", "send"} =>
                 Len(pub[w]) = Cardinality(TakenCommands(w)) - 1
            /\ workers[w].result = Err("SendError") =>
                 /\ Gone(w) /\ handles[w].dropped
                 /\ Len(pub[w]) = Cardinality(TakenCommands(w)) - 1)
    /\ [][\A w \in WorkerIds :
            PublishFails(w) =>
                /\ handles[w].dropped
                /\ workers'[w].result = Err("SendError")
                /\ pub' = pub /\ rxq' = rxq
                /\ cbPending' = cbPending /\ cbLog' = cbLog]_vars

C19_Witness ==
    \E w \in DOMAIN workers :
        /\ callback /\ workers[w].result = Err("SendError")
        /\ Len(pub[w]) = 1 /\ StartedFor(w) = 1 /\ ntaken[w] = 2

\* worker w is executing a command against its pipe
Executing(w) == workers[w].pc \in {"write", "read", "send"}

\* C20: a worker's thread returns Ok exactly when it has taken a command equal
\* to "q", and that is the last command it takes; a command that is "q" only
\* once trimmed is executed like any other.  The "q" gets no reply, and the
\* commands enqueued behind it are never taken, so never executed, answered or
\* handed to the callback.
C20_OnlyQuitEndsOk ==
    \A w \in DOMAIN workers :
        /\ workers[w].result.ok <=>
             (Gone(w) /\ ntaken[w] > 0 /\ sent[w][ntaken[w]] = Q)
        /\ \A i \in 1..ntaken[w] : sent[w][i] = Q => i = ntaken[w]
        /\ Executing(w) =>
             /\ workers[w].cmd = sent[w][ntaken[w]]
             /\ workers[w].cmd # Q
        /\ workers[w].result.ok =>
             /\ workers[w].result = OkUnit
             /\ txq[w] = <<>>
             /\ Len(pub[w]) = ntaken[w] - 1
             /\ StartedFor(w) = (IF callback THEN Len(pub[w]) ELSE 0)

C20_Witness ==
    \E w \in DOMAIN workers :
        /\ workers[w].result = OkUnit /\ Gone(w)
        /\ ntaken[w] = 1 /\ Len(sent[w]) = 2 /\ sent[w][1] = Q
        /\ pub[w] = <<>> /\ Started = EmptyBag

====
